---- MODULE Spec2Model ----
(***************************************************************************)
(* Model of app.py, the Civil Supplies dashboard (one Streamlit script).   *)
(*                                                                         *)
(* A cell of a loaded table is a tagged record: a string (a sequence of    *)
(* one-character strings), a number, NaN or None.  Numbers are integers:   *)
(* the measures of the source files are counts, and integer sums are exact *)
(* in float64, so the float arithmetic of pandas is modelled by exact      *)
(* integer and rational arithmetic.                                        *)
(***************************************************************************)
EXTENDS Integers, Sequences, FiniteSets, TLC

VARIABLES
    frames,        \* the six module-level tables fps_df .. district_geo_df
    files,         \* what the file system holds for each path (or no file)
    pc,            \* position of the script run
    pressed,       \* the st.button that is True in this run (or "none")
    out,           \* what the tab rendered last put on the page
    record_table,  \* the table handed to the aggregating handlers (df_ai)
    insight,       \* what the aggregating handler produced from record_table
    series,        \* the argument of a safe_numeric call
    coerced        \* the value that call returned

vars == <<frames, files, pc, pressed, out, record_table, insight, series, coerced>>

-----------------------------------------------------------------------------
(* Cells *)

Str(s) == [t |-> "str", s |-> s, n |-> 0]
Num(n) == [t |-> "num", s |-> <<>>, n |-> n]
NaN == [t |-> "nan", s |-> <<>>, n |-> 0]
NoneCell == [t |-> "none", s |-> <<>>, n |-> 0]

IsNull(c) == c.t \in {"nan", "none"}

-----------------------------------------------------------------------------
(* Text: str(x), str.replace(",", ""), and the parse of pd.to_numeric *)

Digits == <<"0", "1", "2", "3", "4", "5", "6", "7", "8", "9">>

DigitSet == {Digits[i] : i \in 1..Len(Digits)}

DigitVal(c) == (CHOOSE i \in 1..Len(Digits) : Digits[i] = c) - 1

RECURSIVE NatToChars(_)
NatToChars(n) ==
    IF n < 10 THEN <<Digits[n + 1]>>
    ELSE NatToChars(n \div 10) \o <<Digits[(n % 10) + 1]>>

\* series.astype(str), one element: str() of the cell's Python value.
AsTypeStr(c) ==
    CASE c.t = "str" -> c.s
      [] c.t = "num" -> IF c.n < 0 THEN <<"-">> \o NatToChars(-c.n) ELSE NatToChars(c.n)
      [] c.t = "nan" -> <<"n", "a", "n">>
      [] OTHER -> <<"N", "o", "n", "e">>

\* A plausible slip: replace(",", "", 1) removes the first comma only.
RECURSIVE StrReplaceFirstComma(_)
StrReplaceFirstComma(s) ==
    IF s = <<>> THEN <<>>
    ELSE IF Head(s) = "," THEN Tail(s)
    ELSE <<Head(s)>> \o StrReplaceFirstComma(Tail(s))

\* .str.replace(",", "", regex=False): every comma is removed.
RECURSIVE StrReplaceComma(_)
StrReplaceComma(s) ==
    IF s = <<>> THEN <<>>
    ELSE IF Head(s) = "," THEN StrReplaceComma(Tail(s))
    ELSE <<Head(s)>> \o StrReplaceComma(Tail(s))

IsSpace(c) == c = " "

RECURSIVE LStrip(_)
LStrip(s) == IF s # <<>> /\ IsSpace(Head(s)) THEN LStrip(Tail(s)) ELSE s

RECURSIVE RStrip(_)
RStrip(s) ==
    IF s # <<>> /\ IsSpace(s[Len(s)]) THEN RStrip(SubSeq(s, 1, Len(s) - 1)) ELSE s

AllDigits(s) == s # <<>> /\ \A i \in 1..Len(s) : s[i] \in DigitSet

RECURSIVE DigitsValue(_)
DigitsValue(s) ==
    IF s = <<>> THEN 0
    ELSE 10 * DigitsValue(SubSeq(s, 1, Len(s) - 1)) + DigitVal(s[Len(s)])

\* pd.to_numeric(..., errors="coerce"), one element: surrounding blanks are
\* skipped, one sign is accepted, what is no numeral becomes NaN.
ToNumeric(s) ==
    LET t == RStrip(LStrip(s)) IN
    IF t = <<>> THEN NaN
    ELSE IF Head(t) \in {"-", "+"}
         THEN IF AllDigits(Tail(t))
              THEN Num(IF Head(t) = "-" THEN -DigitsValue(Tail(t)) ELSE DigitsValue(Tail(t)))
              ELSE NaN
    ELSE IF AllDigits(t) THEN Num(DigitsValue(t))
    ELSE NaN

\* safe_numeric on a Series (a sequence of cells).
safe_numeric(s) == [i \in 1..Len(s) |-> ToNumeric(StrReplaceComma(AsTypeStr(s[i])))]

-----------------------------------------------------------------------------
(* DataFrames: column names (a name may occur twice after df[[c, c]]) and  *)
(* rows of cells.  None_df stands for the Python value None.               *)

None_df == [isNone |-> TRUE, cols |-> <<>>, data |-> <<>>]

Frame(cols, data) == [isNone |-> FALSE, cols |-> cols, data |-> data]

ColIdx(df, col) == CHOOSE j \in 1..Len(df.cols) : df.cols[j] = col

\* df.columns.tolist(), the options of a column selectbox
ColumnsOf(df) == {df.cols[j] : j \in 1..Len(df.cols)}

\* df[[c1, c2, ...]]: a new frame holding the listed columns, in that order.
Select(df, names) ==
    Frame(names, [i \in 1..Len(df.data) |->
                    [j \in 1..Len(names) |-> df.data[i][ColIdx(df, names[j])]]])

\* df[col] is a DataFrame, not a Series, when the name labels two columns.
IsDataFrameItem(df, col) == Cardinality({j \in 1..Len(df.cols) : df.cols[j] = col}) > 1

\* df[col] as a Series.
Column(df, col) == [i \in 1..Len(df.data) |-> df.data[i][ColIdx(df, col)]]

\* df[col] = s
SetColumn(df, col, s) ==
    [df EXCEPT !.data = [i \in 1..Len(df.data) |->
        [j \in 1..Len(df.cols) |-> IF df.cols[j] = col THEN s[i] ELSE df.data[i][j]]]]

\* The dtype pandas gives a column: numeric when every cell is a number or NaN.
\* A table read with no rows has text (object) columns.
IsNumericColumn(df, col) ==
    /\ Len(df.data) > 0
    /\ \A i \in 1..Len(df.data) : Column(df, col)[i].t \in {"num", "nan"}

-----------------------------------------------------------------------------
(* Ordering of group keys (groupby sorts its keys) *)

Alphabet == <<" ", "+", ",", "-", "0", "1", "2", "3", "4", "5", "6", "7", "8", "9",
              "A", "B", "C", "D", "E", "F", "G", "K", "N", "a", "e", "n", "o", "x">>

CharCode(c) == CHOOSE i \in 1..Len(Alphabet) : Alphabet[i] = c

RECURSIVE TextLess(_, _)
TextLess(a, b) ==
    IF b = <<>> THEN FALSE
    ELSE IF a = <<>> THEN TRUE
    ELSE IF Head(a) = Head(b) THEN TextLess(Tail(a), Tail(b))
    ELSE CharCode(Head(a)) < CharCode(Head(b))

\* Numbers sort before strings (pandas sorts mixed keys so); nulls come last.
TypeRank(c) == CASE c.t = "num" -> 0 [] c.t = "str" -> 1 [] c.t = "nan" -> 2 [] OTHER -> 3

CellLess(a, b) ==
    IF a.t = "num" /\ b.t = "num" THEN a.n < b.n
    ELSE IF a.t = "str" /\ b.t = "str" THEN TextLess(a.s, b.s)
    ELSE TypeRank(a) < TypeRank(b)

RECURSIVE SortCells(_)
SortCells(S) ==
    IF S = {} THEN <<>>
    ELSE LET m == CHOOSE x \in S : \A y \in S \ {x} : CellLess(x, y)
         IN <<m>> \o SortCells(S \ {m})

-----------------------------------------------------------------------------
(* Group aggregation: tmp.groupby(dim)[val].sum() *)

\* The sum of one group: NaN measures are skipped, so a group whose measures
\* are all NaN sums to 0.
RECURSIVE GroupSum(_, _, _, _)
GroupSum(keys, vals, k, i) ==
    IF i = 0 THEN 0
    ELSE GroupSum(keys, vals, k, i - 1)
         + (IF keys[i] = k /\ vals[i].t = "num" THEN vals[i].n ELSE 0)

\* A plausible slip: groupby(..., dropna=False) keeps the rows whose key is null.
GroupKeysKeepNull(keys) == {keys[i] : i \in 1..Len(keys)}

\* The keys groupby forms groups for: rows whose key is NaN or None are left out.
GroupKeys(keys) == {keys[i] : i \in {j \in 1..Len(keys) : ~IsNull(keys[j])}}

\* One entry per key, in key order.
GroupBySum(df, dim, val) ==
    LET keys == Column(df, dim)
        vals == Column(df, val)
        ks == SortCells(GroupKeys(keys))
    IN [j \in 1..Len(ks) |-> [key |-> ks[j], sum |-> GroupSum(keys, vals, ks[j], Len(keys))]]

\* .reset_index().dropna(): entries with a null key are dropped (a sum is never NaN).
DropNa(agg) == SelectSeq(agg, LAMBDA e : ~IsNull(e.key))

-----------------------------------------------------------------------------
(* Statistics of the group sums, as exact rationals [num, den] *)

Z_THRESHOLD == 2

TOP_N == 5

SALE_HEAD == 20

RECURSIVE SumOfSums(_, _)
SumOfSums(agg, i) == IF i = 0 THEN 0 ELSE SumOfSums(agg, i - 1) + agg[i].sum

\* n * sum_i - total: the deviation of group i from the mean, times n.
Deviation(agg, i) == Len(agg) * agg[i].sum - SumOfSums(agg, Len(agg))

RECURSIVE SumSqDev(_, _)
SumSqDev(agg, i) ==
    IF i = 0 THEN 0 ELSE SumSqDev(agg, i - 1) + Deviation(agg, i) * Deviation(agg, i)

\* values.mean()
Mean(agg) == [num |-> SumOfSums(agg, Len(agg)), den |-> Len(agg)]

\* A plausible slip: values.std() (ddof=1), the sample variance, divides by n - 1.
SampleVariance(agg) ==
    [num |-> SumSqDev(agg, Len(agg)),
     den |-> Len(agg) * Len(agg) * (IF Len(agg) > 1 THEN Len(agg) - 1 ELSE 1)]

\* values.std(ddof=0) squared: the population variance.
Variance(agg) ==
    [num |-> SumSqDev(agg, Len(agg)), den |-> Len(agg) * Len(agg) * Len(agg)]

\* A plausible slip: dividing by std_val with no fallback; 0/0 is NaN, and a NaN
\* z-score compares False with everything.
ZScoreNoFallback(agg, i) ==
    [dev |-> [num |-> Deviation(agg, i), den |-> Len(agg)],
     var |-> Variance(agg),
     by_std |-> TRUE,
     nan |-> Variance(agg).num = 0]

\* (agg[val] - mean_val) / (std_val if std_val else 1): the deviation, the
\* variance, and whether the divisor is the standard deviation or 1.
ZScore(agg, i) ==
    [dev |-> [num |-> Deviation(agg, i), den |-> Len(agg)],
     var |-> Variance(agg),
     by_std |-> Variance(agg).num # 0,
     nan |-> FALSE]

\* z > k, for an integer k >= 0
ZGreater(z, k) ==
    /\ ~z.nan
    /\ IF z.by_std
       THEN /\ z.dev.num > 0
            /\ z.dev.num * z.dev.num * z.var.den > k * k * z.var.num * z.dev.den * z.dev.den
       ELSE z.dev.num > k * z.dev.den

\* z < -k, for an integer k >= 0
ZLess(z, k) ==
    /\ ~z.nan
    /\ IF z.by_std
       THEN /\ z.dev.num < 0
            /\ z.dev.num * z.dev.num * z.var.den > k * k * z.var.num * z.dev.den * z.dev.den
       ELSE z.dev.num < -(k * z.dev.den)

ZIsZero(z) == ~z.nan /\ z.dev.num = 0

\* A plausible slip: the ascending flag the wrong way round.
RECURSIVE SortIdxDescending(_, _)
SortIdxDescending(S, key) ==
    IF S = {} THEN <<>>
    ELSE LET m == CHOOSE i \in S : \A j \in S \ {i} :
                      key[i] > key[j] \/ (key[i] = key[j] /\ i < j)
         IN <<m>> \o SortIdxDescending(S \ {m}, key)

\* sort_values: indices S ordered by ascending key[i]; equal keys keep their
\* order (the sort is an insertion sort below 17 elements).
RECURSIVE SortIdx(_, _)
SortIdx(S, key) ==
    IF S = {} THEN <<>>
    ELSE LET m == CHOOSE i \in S : \A j \in S \ {i} :
                      key[i] < key[j] \/ (key[i] = key[j] /\ i < j)
         IN <<m>> \o SortIdx(S \ {m}, key)

HeadN(s, n) == SubSeq(s, 1, IF Len(s) < n THEN Len(s) ELSE n)

-----------------------------------------------------------------------------
(* float64 arithmetic, 1: naturals of any size, as limbs to the base LIMB, least
   significant first, with no leading zero limb; 0 is <<>>. *)

LIMB_BITS == 15

LIMB == 32768

RECURSIVE Pow2(_)
Pow2(k) == IF k = 0 THEN 1 ELSE 2 * Pow2(k - 1)

RECURSIVE BNorm(_)
BNorm(a) == IF a # <<>> /\ a[Len(a)] = 0 THEN BNorm(SubSeq(a, 1, Len(a) - 1)) ELSE a

RECURSIVE BFromNat(_)
BFromNat(n) == IF n = 0 THEN <<>> ELSE <<n % LIMB>> \o BFromNat(n \div LIMB)

Limb(a, i) == IF i <= Len(a) THEN a[i] ELSE 0

RECURSIVE BAddFrom(_, _, _, _)
BAddFrom(a, b, i, carry) ==
    IF i > Len(a) /\ i > Len(b)
    THEN (IF carry = 0 THEN <<>> ELSE <<carry>>)
    ELSE LET t == Limb(a, i) + Limb(b, i) + carry
         IN <<t % LIMB>> \o BAddFrom(a, b, i + 1, t \div LIMB)

BAdd(a, b) == BAddFrom(a, b, 1, 0)

\* a - b for a >= b
RECURSIVE BSubFrom(_, _, _, _)
BSubFrom(a, b, i, borrow) ==
    IF i > Len(a) THEN <<>>
    ELSE LET t == Limb(a, i) - Limb(b, i) - borrow
         IN IF t < 0 THEN <<t + LIMB>> \o BSubFrom(a, b, i + 1, 1)
            ELSE <<t>> \o BSubFrom(a, b, i + 1, 0)

BSub(a, b) == BNorm(BSubFrom(a, b, 1, 0))

RECURSIVE BLessFrom(_, _, _)
BLessFrom(a, b, i) ==
    IF i = 0 THEN FALSE
    ELSE IF a[i] # b[i] THEN a[i] < b[i]
    ELSE BLessFrom(a, b, i - 1)

BLess(a, b) ==
    IF Len(a) # Len(b) THEN Len(a) < Len(b) ELSE BLessFrom(a, b, Len(a))

RECURSIVE BMulSmallFrom(_, _, _, _)
BMulSmallFrom(a, k, i, carry) ==
    IF i > Len(a) THEN (IF carry = 0 THEN <<>> ELSE <<carry>>)
    ELSE LET t == a[i] * k + carry
         IN <<t % LIMB>> \o BMulSmallFrom(a, k, i + 1, t \div LIMB)

\* a * k for 0 <= k < LIMB
BMulSmall(a, k) == IF k = 0 THEN <<>> ELSE BMulSmallFrom(a, k, 1, 0)

RECURSIVE BMul(_, _)
BMul(a, b) ==
    IF a = <<>> \/ b = <<>> THEN <<>>
    ELSE LET rest == BMul(a, Tail(b))
         IN BAdd(BMulSmall(a, Head(b)), IF rest = <<>> THEN <<>> ELSE <<0>> \o rest)

RECURSIVE SmallBitLen(_)
SmallBitLen(n) == IF n = 0 THEN 0 ELSE 1 + SmallBitLen(n \div 2)

BitLen(a) == IF a = <<>> THEN 0 ELSE LIMB_BITS * (Len(a) - 1) + SmallBitLen(a[Len(a)])

\* bit i of a, bit 0 the least significant
Bit(a, i) == (Limb(a, i \div LIMB_BITS + 1) \div Pow2(i % LIMB_BITS)) % 2

\* a * 2^k
ShiftLeft(a, k) ==
    IF a = <<>> THEN <<>>
    ELSE [i \in 1..(k \div LIMB_BITS) |-> 0] \o BMulSmall(a, Pow2(k % LIMB_BITS))

\* floor(a / 2^k)
ShiftRight(a, k) ==
    LET w == k \div LIMB_BITS
        r == k % LIMB_BITS
    IN IF w >= Len(a) THEN <<>>
       ELSE BNorm([i \in 1..(Len(a) - w) |->
                     Limb(a, i + w) \div Pow2(r)
                       + (Limb(a, i + w + 1) % Pow2(r)) * Pow2(LIMB_BITS - r)])

\* the k low bits of a are all 0
LowBitsZero(a, k) ==
    /\ \A i \in 1..(k \div LIMB_BITS) : Limb(a, i) = 0
    /\ Limb(a, k \div LIMB_BITS + 1) % Pow2(k % LIMB_BITS) = 0

\* The largest t, acc <= t < acc + 2^(bit+1), with t * d <= r.
RECURSIVE DivDigit(_, _, _, _)
DivDigit(r, d, acc, bit) ==
    IF bit < 0 THEN acc
    ELSE IF BLess(r, BMulSmall(d, acc + Pow2(bit))) THEN DivDigit(r, d, acc, bit - 1)
    ELSE DivDigit(r, d, acc + Pow2(bit), bit - 1)

\* Quotient and remainder of n by d # 0: long division, one limb of n at a
\* time from limb i down.
RECURSIVE BDivModFrom(_, _, _, _, _)
BDivModFrom(n, d, i, q, r) ==
    IF i = 0 THEN [q |-> BNorm(q), r |-> r]
    ELSE LET r2 == BNorm(<<n[i]>> \o r)
             t == DivDigit(r2, d, 0, LIMB_BITS - 1)
         IN BDivModFrom(n, d, i - 1, <<t>> \o q, BSub(r2, BMulSmall(d, t)))

BDivMod(n, d) ==
    IF BLess(n, d) THEN [q |-> <<>>, r |-> n] ELSE BDivModFrom(n, d, Len(n), <<>>, <<>>)

\* The largest t, acc <= t < acc + 2^(bit+1), with (r + t * LIMB^j)^2 <= n.
RECURSIVE SqrtDigit(_, _, _, _, _)
SqrtDigit(n, r, j, acc, bit) ==
    LET c == BAdd(r, [i \in 1..j |-> 0] \o <<acc + Pow2(bit)>>) IN
    IF bit < 0 THEN acc
    ELSE IF BLess(n, BMul(c, c)) THEN SqrtDigit(n, r, j, acc, bit - 1)
    ELSE SqrtDigit(n, r, j, acc + Pow2(bit), bit - 1)

\* floor(sqrt(n)): the limbs of the root from limb j + 1 down.
RECURSIVE BSqrtFrom(_, _, _)
BSqrtFrom(n, j, r) ==
    IF j < 0 THEN r
    ELSE LET t == SqrtDigit(n, r, j, 0, LIMB_BITS - 1)
         IN BSqrtFrom(n, j - 1, IF t = 0 THEN r ELSE BAdd(r, [i \in 1..j |-> 0] \o <<t>>))

BSqrt(n) == BSqrtFrom(n, (Len(n) + 1) \div 2, <<>>)

-----------------------------------------------------------------------------
(* float64 arithmetic, 2: IEEE 754 binary64, the float64 of numpy and pandas: neg, m, e stand for (-1)^neg * m * 2^e
   with m = 0 or 2^52 <= m < 2^53.  The exponent range is not modelled: the
   values of the z-score computation stay far from overflow and underflow. *)

MANT_BITS == 53

FZero == [neg |-> FALSE, m |-> <<>>, e |-> 0]

\* (m + d) * 2^e with 0 < d < 1 when sticky and d = 0 otherwise, rounded to
\* nearest, ties to even.
Round(neg, m, e, sticky) ==
    LET len == BitLen(m) IN
    IF m = <<>> THEN FZero
    ELSE IF len <= MANT_BITS
    THEN [neg |-> neg, m |-> ShiftLeft(m, MANT_BITS - len), e |-> e - (MANT_BITS - len)]
    ELSE LET s == len - MANT_BITS
             q == ShiftRight(m, s)
             half == Bit(m, s - 1) = 1
             rest == sticky \/ ~LowBitsZero(m, s - 1)
             up == half /\ (rest \/ Bit(q, 0) = 1)
             q1 == IF up THEN BAdd(q, <<1>>) ELSE q
         IN IF BitLen(q1) > MANT_BITS
            THEN [neg |-> neg, m |-> ShiftRight(q1, 1), e |-> e + s + 1]
            ELSE [neg |-> neg, m |-> q1, e |-> e + s]

\* int64 to float64 (exact below 2^53)
FromInt(n) == Round(n < 0, BFromNat(IF n < 0 THEN -n ELSE n), 0, FALSE)

\* a + b: the exact sum of the two, rounded once
FAdd(a, b) ==
    IF a.m = <<>> THEN b
    ELSE IF b.m = <<>> THEN a
    ELSE LET e == IF a.e < b.e THEN a.e ELSE b.e
             ma == ShiftLeft(a.m, a.e - e)
             mb == ShiftLeft(b.m, b.e - e)
             bigger == BLess(ma, mb)
         IN Round(IF bigger THEN b.neg ELSE a.neg,
                  IF a.neg = b.neg THEN BAdd(ma, mb)
                  ELSE IF bigger THEN BSub(mb, ma) ELSE BSub(ma, mb),
                  e, FALSE)

\* a - b: a + (-b)
FSub(a, b) == FAdd(a, IF b.m = <<>> THEN b ELSE [b EXCEPT !.neg = ~b.neg])

FMul(a, b) == Round(a.neg # b.neg, BMul(a.m, b.m), a.e + b.e, FALSE)

\* a ** 2
FSquare(a) == FMul(a, a)

\* a / b for b # 0
FDiv(a, b) ==
    IF a.m = <<>> THEN FZero
    ELSE LET d == BDivMod(ShiftLeft(a.m, MANT_BITS + 3), b.m)
         IN Round(a.neg # b.neg, d.q, a.e - b.e - (MANT_BITS + 3), d.r # <<>>)

\* sqrt(a) for a >= 0
FSqrt(a) ==
    IF a.m = <<>> THEN FZero
    ELSE LET k == MANT_BITS + 5 + (a.e % 2)
             n == ShiftLeft(a.m, k)
             r == BSqrt(n)
         IN Round(FALSE, r, (a.e - k) \div 2, BMul(r, r) # n)

\* |a| < |b|: the significands have MANT_BITS bits, so the exponent decides first
MagLess(a, b) ==
    IF b.m = <<>> THEN FALSE
    ELSE IF a.m = <<>> THEN TRUE
    ELSE IF a.e # b.e THEN a.e < b.e
    ELSE BLess(a.m, b.m)

\* a < b
FLess(a, b) ==
    IF a.neg # b.neg THEN a.neg
    ELSE IF a.neg THEN MagLess(b, a) ELSE MagLess(a, b)

\* values.sum() of fewer than 8 float64: numpy adds them left to right.
RECURSIVE Sum64(_, _)
Sum64(v, i) == IF i = 0 THEN FZero ELSE FAdd(Sum64(v, i - 1), v[i])

\* v.mean(): the_sum / count
Mean64(v, count) == FDiv(Sum64(v, Len(v)), count)

\* v.std(ddof=0): sqr = (avg - v) ** 2; sqrt(sqr.sum() / count).  avg is the
\* mean once more (std computes sum / count itself, to the same float64).
Std64(v, count, avg) ==
    LET sqr == [i \in 1..Len(v) |-> FSquare(FSub(avg, v[i]))]
    IN FSqrt(FDiv(Sum64(sqr, Len(v)), count))

\* mean_val, std_val and (agg[val] - mean_val) / (std_val if std_val else 1)
\* for the group sums v (int64 taken to float64), every step in float64.
\* Each statement's value is computed once, before the next one uses it
\* (the one-element sets bind it; a LET would compute it where first used).
Stats64(v, count) ==
    CHOOSE st \in UNION {
        { [mean_val |-> mean_val,
           std_val |-> std_val,
           z_score |-> [i \in 1..Len(v) |->
                          FDiv(FSub(v[i], mean_val),
                               IF std_val.m = <<>> THEN FromInt(1) ELSE std_val)]] :
          std_val \in {Std64(v, count, mean_val)} } :
        mean_val \in {Mean64(v, count)} } : TRUE

-----------------------------------------------------------------------------
(* What a handler puts on the page *)

NoRational == [num |-> 0, den |-> 1]

Blank ==
    [tab |-> "none", raised |-> FALSE, notices |-> {}, shown |-> {},
     source |-> "", dim |-> "", val |-> "", allot_col |-> "",
     agg |-> <<>>, z_score |-> <<>>,
     top |-> <<>>, bottom |-> <<>>, high_anom |-> <<>>, low_anom |-> <<>>,
     mean_val |-> NoRational, var_val |-> NoRational, kpi |-> <<>>, rows |-> 0]

\* An exception nothing catches: Streamlit shows it and stops the script run.
Raised(what) == [Blank EXCEPT !.raised = TRUE, !.shown = {what}]

Notice(text) == [Blank EXCEPT !.notices = {text}]

NO_NUMERIC_AI == "No numeric data available after cleaning."

NO_NUMERIC_PLOT == "No numeric data available to plot."

-----------------------------------------------------------------------------
(* The aggregating handlers *)

\* AI Insights tab, "Generate AI-style Insight".  The anomaly views are sorted
\* by z_score; all z-scores share one positive divisor, so that is the order
\* of the deviations.
GenerateInsight(df, dim, val) ==
    LET tmp0 == Select(df, <<dim, val>>) IN
    IF IsDataFrameItem(tmp0, val) THEN Raised("AttributeError")
    ELSE
    LET tmp == SetColumn(tmp0, val, safe_numeric(Column(tmp0, val)))
        agg == DropNa(GroupBySum(tmp, dim, val))
        n == Len(agg)
        z == [i \in 1..n |-> ZScore(agg, i)]
        row(i) == [key |-> agg[i].key, sum |-> agg[i].sum, z_score |-> z[i]]
        rows(idx) == [k \in 1..Len(idx) |-> row(idx[k])]
        asc == [i \in 1..n |-> agg[i].sum]
        desc == [i \in 1..n |-> -agg[i].sum]
        devAsc == [i \in 1..n |-> Deviation(agg, i)]
        devDesc == [i \in 1..n |-> -Deviation(agg, i)]
        high == {i \in 1..n : ZGreater(z[i], Z_THRESHOLD)}
        low == {i \in 1..n : ZLess(z[i], Z_THRESHOLD)}
    IN
    IF agg = <<>> THEN Notice(NO_NUMERIC_AI)
    ELSE [Blank EXCEPT
            !.agg = agg,
            !.z_score = z,
            !.mean_val = Mean(agg),
            !.var_val = Variance(agg),
            !.top = HeadN(rows(SortIdx(1..n, desc)), TOP_N),
            !.bottom = HeadN(rows(SortIdx(1..n, asc)), TOP_N),
            !.high_anom = rows(SortIdx(high, devDesc)),
            !.low_anom = rows(SortIdx(low, devAsc)),
            !.shown = {"snapshot", "top", "bottom", "anomalies", "narrative"}]

\* "Generate AI-style Insight" with mean, std and z_score computed as pandas
\* computes them, in float64.  It is GenerateInsight but for the rounding of
\* every step, which decides the flags of a group whose exact z-score is 2 or
\* -2.  The anomaly views are ordered by the float64 z-scores.
GenerateInsight64(df, dim, val) ==
    LET tmp0 == Select(df, <<dim, val>>) IN
    IF IsDataFrameItem(tmp0, val) THEN Raised("AttributeError")
    ELSE
    LET tmp == SetColumn(tmp0, val, safe_numeric(Column(tmp0, val)))
        agg == DropNa(GroupBySum(tmp, dim, val))
        n == Len(agg)
        asc == [i \in 1..n |-> agg[i].sum]
        desc == [i \in 1..n |-> -agg[i].sum]
        Views(st) ==
            LET z == st.z_score
                row(i) == [key |-> agg[i].key, sum |-> agg[i].sum, z_score |-> z[i]]
                rows(idx) == [k \in 1..Len(idx) |-> row(idx[k])]
                zAsc == [i \in 1..n |-> Cardinality({j \in 1..n : FLess(z[j], z[i])})]
                zDesc == [i \in 1..n |-> -zAsc[i]]
                high == {i \in 1..n : FLess(FromInt(Z_THRESHOLD), z[i])}
                low == {i \in 1..n : FLess(z[i], FromInt(-Z_THRESHOLD))}
            IN [Blank EXCEPT
                  !.agg = agg,
                  !.z_score = z,
                  !.mean_val = st.mean_val,
                  !.var_val = st.std_val,
                  !.top = HeadN(rows(SortIdx(1..n, desc)), TOP_N),
                  !.bottom = HeadN(rows(SortIdx(1..n, asc)), TOP_N),
                  !.high_anom = rows(SortIdx(high, zDesc)),
                  !.low_anom = rows(SortIdx(low, zAsc)),
                  !.shown = {"snapshot", "top", "bottom", "anomalies", "narrative"}]
    IN
    IF agg = <<>> THEN Notice(NO_NUMERIC_AI)
    ELSE CHOOSE r \in {Views(st) : st \in {Stats64([i \in 1..n |-> FromInt(agg[i].sum)], FromInt(n))}} : TRUE

\* Heatmaps tab, "Build Heatmap Table": the styled table is shown whatever agg holds.
BuildHeatmap(df, dim, val) ==
    LET tmp0 == Select(df, <<dim, val>>) IN
    IF IsDataFrameItem(tmp0, val) THEN Raised("AttributeError")
    ELSE
    LET tmp == SetColumn(tmp0, val, safe_numeric(Column(tmp0, val)))
        agg == GroupBySum(tmp, dim, val)
    IN [Blank EXCEPT !.agg = agg, !.shown = {"dataframe"}]

\* Sale Distribution tab, "Plot Aggregated Sale Distribution".
PlotSaleDistribution(df, dim, val) ==
    LET tmp0 == Select(df, <<dim, val>>) IN
    IF IsDataFrameItem(tmp0, val) THEN Raised("AttributeError")
    ELSE
    LET tmp == SetColumn(tmp0, val, safe_numeric(Column(tmp0, val)))
        grouped == GroupBySum(tmp, dim, val)
        order == SortIdx(1..Len(grouped), [i \in 1..Len(grouped) |-> -grouped[i].sum])
        agg == HeadN([k \in 1..Len(order) |-> grouped[order[k]]], SALE_HEAD)
    IN IF agg # <<>>
       THEN [Blank EXCEPT !.agg = agg, !.shown = {"bar_chart"}]
       ELSE Notice(NO_NUMERIC_PLOT)

-----------------------------------------------------------------------------
(* The other handlers *)

Both(a, b) == [a EXCEPT !.notices = a.notices \cup b.notices, !.shown = a.shown \cup b.shown]

Shown(what) == [Blank EXCEPT !.shown = what]

\* left_df.merge(right_df, left_on=, right_on=, how="inner") refuses to merge a
\* text column with a numeric one when both frames have rows.
MergeRefused(left, lcol, right, rcol) ==
    /\ Len(left.data) > 0
    /\ Len(right.data) > 0
    /\ IsNumericColumn(left, lcol) # IsNumericColumn(right, rcol)

\* The number of rows of the inner join.
MergeRows(left, lcol, right, rcol) ==
    Cardinality({p \in (1..Len(left.data)) \X (1..Len(right.data)) :
                    Column(left, lcol)[p[1]] = Column(right, rcol)[p[2]]})

\* District tab, "Join FPS & RC".
JoinFpsRc(left, right, fps_join_col, rc_join_col) ==
    IF MergeRefused(left, fps_join_col, right, rc_join_col) THEN Raised("ValueError")
    ELSE [Blank EXCEPT !.notices = {"Joined dataframe has N rows."},
                       !.rows = MergeRows(left, fps_join_col, right, rc_join_col),
                       !.shown = {"joined"}]

IsIsoDate(s) ==
    /\ Len(s) = 10
    /\ s[5] = "-" /\ s[8] = "-"
    /\ \A i \in {1, 2, 3, 4, 6, 7, 9, 10} : s[i] \in DigitSet

\* pd.to_datetime(..., errors="coerce"), one element, as a day number (NaN is
\* NaT).  A number is a timestamp; an ISO date parses; text with no digit does
\* not; any other text is left to the date parser's guess (lenient or not).
ToDatetime(c, lenient) ==
    CASE c.t = "num" -> Num(c.n)
      [] c.t = "str" /\ IsIsoDate(c.s) ->
            Num(DigitsValue(SelectSeq(c.s, LAMBDA ch : ch # "-")))
      [] c.t = "str" /\ lenient /\ (\E i \in 1..Len(c.s) : c.s[i] \in DigitSet) -> Num(0)
      [] OTHER -> NaN

\* NFSA tab, "Plot Date-wise Trend".
PlotDateTrend(df, date_col, value_col, lenient) ==
    LET tmp0 == Select(df, <<date_col, value_col>>) IN
    IF IsDataFrameItem(tmp0, date_col) THEN Raised("ValueError")
    ELSE
    LET dates == [i \in 1..Len(tmp0.data) |-> ToDatetime(Column(tmp0, date_col)[i], lenient)]
        tmp1 == SetColumn(tmp0, date_col, dates)
        tmp2 == SetColumn(tmp1, value_col, safe_numeric(Column(tmp1, value_col)))
        kept == {i \in 1..Len(tmp2.data) : \A j \in 1..2 : ~IsNull(tmp2.data[i][j])}
        order == SortIdx(kept, [i \in 1..Len(tmp2.data) |-> tmp2.data[i][1].n])
        tmp == [k \in 1..Len(order) |->
                   [key |-> tmp2.data[order[k]][1], sum |-> tmp2.data[order[k]][2].n]]
    IN IF tmp # <<>>
       THEN [Blank EXCEPT !.agg = tmp, !.shown = {"line_chart"}]
       ELSE Notice("No valid data to plot after cleaning.")

\* Scheme tab, "Plot Scheme-wise Allotment vs Sale".
PlotScheme(df, scheme_col, allot_col, sale_col) ==
    LET tmp0 == Select(df, <<scheme_col, allot_col, sale_col>>) IN
    IF IsDataFrameItem(tmp0, allot_col) \/ IsDataFrameItem(tmp0, sale_col)
    THEN Raised("AttributeError")
    ELSE
    LET tmp1 == SetColumn(tmp0, allot_col, safe_numeric(Column(tmp0, allot_col)))
        tmp == SetColumn(tmp1, sale_col, safe_numeric(Column(tmp1, sale_col)))
        sale == GroupBySum(tmp, scheme_col, sale_col)
        allot == GroupBySum(tmp, scheme_col, allot_col)
        order == SortIdx(1..Len(sale), [i \in 1..Len(sale) |-> -sale[i].sum])
        agg == [k \in 1..Len(order) |->
                  [key |-> sale[order[k]].key, sum |-> sale[order[k]].sum,
                   allot |-> allot[order[k]].sum]]
    IN IF agg # <<>>
       THEN [Blank EXCEPT !.agg = agg, !.shown = {"bar_chart"}]
       ELSE Notice(NO_NUMERIC_PLOT)

RECURSIVE ColumnTotal(_, _)
ColumnTotal(col, i) ==
    IF i = 0 THEN 0
    ELSE ColumnTotal(col, i - 1) + (IF col[i].t = "num" THEN col[i].n ELSE 0)

Kpi(label, n) == [label |-> label, na |-> FALSE, num |-> n, den |-> 1]

KpiNA(label) == [label |-> label, na |-> TRUE, num |-> 0, den |-> 1]

RowsKpi(label, df) == IF ~df.isNone /\ Len(df.data) # 0 THEN Kpi(label, Len(df.data)) ELSE KpiNA(label)

\* Overview tab: four row counts, and totals guessed from the first two
\* numeric columns of the scheme table.
Overview(fps, rc, nfsa, scheme) ==
    LET counts == << RowsKpi("FPS rows (district-wise file)", fps),
                     RowsKpi("RC rows (district-wise file)", rc),
                     IF ~nfsa.isNone THEN Kpi("NFSA Date Abstract rows", Len(nfsa.data))
                                     ELSE KpiNA("NFSA Date Abstract rows"),
                     RowsKpi("Scheme-wise Allotment/Sale rows", scheme) >>
        num_cols == SelectSeq(scheme.cols, LAMBDA c : IsNumericColumn(scheme, c))
        total_allot == ColumnTotal(Column(scheme, num_cols[1]), Len(scheme.data))
        total_sale == ColumnTotal(Column(scheme, num_cols[2]), Len(scheme.data))
    IN IF scheme.isNone THEN [Blank EXCEPT !.kpi = counts, !.shown = {"metrics"}]
       ELSE IF Len(num_cols) >= 2
       THEN [Blank EXCEPT
               !.kpi = counts \o << Kpi("Total Allotment (guessed)", total_allot),
                                    Kpi("Total Sale (guessed)", total_sale),
                                    IF total_allot # 0
                                    THEN [label |-> "Sale vs Allotment (%)", na |-> FALSE,
                                          num |-> total_sale * 100, den |-> total_allot]
                                    ELSE KpiNA("Sale vs Allotment (%)") >>,
               !.shown = {"metrics"}]
       ELSE [Blank EXCEPT
               !.kpi = counts, !.shown = {"metrics"},
               !.notices = {"Once we know exact allotment/sale columns, KPIs can be made more precise."}]

\* join_df = df_for_heatmap.copy(): a new object beside the loaded tables.
\* A plausible slip: join_df = df_for_heatmap, the loaded table itself.
AliasFrame(h, src) == [heap |-> h, ref |-> src]

CopyFrame(h, src) == [heap |-> [h EXCEPT !["join_df"] = h[src]], ref |-> "join_df"]

\* Heatmaps tab, map view: everything inside the try; an exception becomes a warning.
MapView(h, src, dim_col, val_col) ==
    LET c == CopyFrame(h, src)
        h1 == [c.heap EXCEPT ![c.ref] =
                  SetColumn(c.heap[c.ref], val_col, safe_numeric(Column(c.heap[c.ref], val_col)))]
        join_df == h1[c.ref]
        geo == h["district_geo_df"]
        agg == GroupBySum(join_df, dim_col, val_col)
        aggFrame == Frame(<<dim_col>>, [i \in 1..Len(agg) |-> <<agg[i].key>>])
        geoCols == {geo.cols[j] : j \in 1..Len(geo.cols)}
        failed == \/ dim_col = val_col
                  \/ "district" \notin geoCols
                  \/ MergeRefused(aggFrame, dim_col, geo, "district")
        matches == MergeRows(aggFrame, dim_col, geo, "district")
        noLatLon == ~({"lat", "lon"} \subseteq geoCols) \/ {"lat", "lon"} \cap {dim_col, val_col} # {}
    IN [heap |-> h1,
        out |-> IF failed THEN Notice("Could not build geo-join for map")
                ELSE IF matches > 0
                     THEN IF noLatLon THEN Notice("Could not build geo-join for map")
                          ELSE Shown({"map"})
                ELSE Notice("No matching districts found between data and geo file.")]

-----------------------------------------------------------------------------
(* The script run: the loads, then the eight tabs in order *)

Datasets == {"fps_df", "rc_df", "sale_dist_df", "nfsa_date_df", "scheme_sale_df", "district_geo_df"}

Script == <<"fps_df", "rc_df", "sale_dist_df", "nfsa_date_df", "scheme_sale_df", "district_geo_df",
            "tab0", "tab1", "tab2", "tab3", "tab4", "tab5", "tab6", "tab7", "done">>

After(p) == Script[(CHOOSE i \in 1..Len(Script) : Script[i] = p) + 1]

Buttons == {"none", "join", "date", "sale", "scheme", "heat", "ai"}

HEATMAP_CHOICES == {"None", "FPS CSV", "RC CSV", "Sale Dist XLS", "Scheme-wise Sale/Allot XLS"}

AI_CHOICES == HEATMAP_CHOICES \cup {"NFSA Date Abstract XLS"}

\* The module-level table a chooser label stands for.
SourceRef(choice) ==
    CASE choice = "FPS CSV" -> "fps_df"
      [] choice = "RC CSV" -> "rc_df"
      [] choice = "Sale Dist XLS" -> "sale_dist_df"
      [] choice = "Scheme-wise Sale/Allot XLS" -> "scheme_sale_df"
      [] choice = "NFSA Date Abstract XLS" -> "nfsa_date_df"
      [] OTHER -> "none"

\* df_for_heatmap / df_ai: the chosen table when it is loaded, else None.
ChosenFrame(choice) == IF choice = "None" THEN None_df ELSE frames[SourceRef(choice)]

fps_df == frames["fps_df"]

rc_df == frames["rc_df"]

sale_dist_df == frames["sale_dist_df"]

nfsa_date_df == frames["nfsa_date_df"]

scheme_sale_df == frames["scheme_sale_df"]

district_geo_df == frames["district_geo_df"]

A == Str(<<"A">>)

B == Str(<<"B">>)

FpsFile == Frame(<<"District", "FPS">>, << <<A, Num(2)>>, <<B, Num(3)>> >>)

RcFile ==
    Frame(<<"District", "Cards">>, << <<A, Str(<<"1", ",", "0">>)>>, <<B, Str(<<"2", "0">>)>> >>)

SaleFile == Frame(<<"District", "Qty">>, << <<A, Num(5)>>, <<A, Str(<<"x">>)>>, <<B, Num(1)>> >>)

SaleFileNoRows == Frame(<<"District", "Qty">>, <<>>)

NfsaFile ==
    Frame(<<"Date", "Qty">>,
          << <<Str(<<"2", "0", "2", "5", "-", "1", "1", "-", "0", "2">>), Str(<<"1", ",", "0">>)>>,
             <<Str(<<"2", "0", "2", "5", "-", "1", "1", "-", "0", "1">>), Num(7)>> >>)

SchemeFile ==
    Frame(<<"Scheme", "Allot", "Sale">>, << <<A, Num(10), Num(5)>>, <<B, Num(10), Num(10)>> >>)

SchemeFileNoRows == Frame(<<"Scheme", "Allot", "Sale">>, <<>>)

GeoFile == Frame(<<"district", "lat", "lon">>, << <<A, Num(16), Num(80)>> >>)

\* What each path may hold; None_df is a missing or unreadable file.
FileChoices ==
    [fps_df : {None_df, FpsFile},
     rc_df : {None_df, RcFile},
     sale_dist_df : {None_df, SaleFile, SaleFileNoRows},
     nfsa_date_df : {None_df, NfsaFile},
     scheme_sale_df : {None_df, SchemeFile, SchemeFileNoRows},
     district_geo_df : {None_df, GeoFile}]

NoFrames == [d \in Datasets |-> None_df]

Init ==
    /\ files \in FileChoices
    /\ frames = NoFrames
    /\ pc = "fps_df"
    /\ pressed \in Buttons
    /\ out = Blank
    /\ record_table = None_df
    /\ insight = Blank
    /\ series = <<>>
    /\ coerced = <<>>

Rest == <<files, pressed, record_table, insight, series, coerced>>

\* Where the run goes after a tab: an uncaught exception ends it.
Advance(o) == IF o.raised THEN "stopped" ELSE After(pc)

Render(tab, o) ==
    /\ out' = [o EXCEPT !.tab = tab]
    /\ pc' = Advance(o)

\* One of the six loads.  A failed load is caught: the variable stays None and,
\* for the five data files, st.error reports it.
LoadDataset ==
    /\ pc \in Datasets
    /\ frames' = [frames EXCEPT ![pc] = files[pc]]
    /\ out' = [(IF files[pc].isNone /\ pc # "district_geo_df"
                THEN Notice("Could not load") ELSE Blank)
               EXCEPT !.tab = "load", !.source = pc]
    /\ pc' = After(pc)
    /\ UNCHANGED Rest

Tab0Overview ==
    /\ pc = "tab0"
    /\ Render("tab0", Overview(fps_df, rc_df, nfsa_date_df, scheme_sale_df))
    /\ UNCHANGED <<frames, Rest>>

Tab1Join ==
    /\ pc = "tab1"
    /\ LET head == Both(IF fps_df.isNone THEN Notice("FPS CSV not loaded.") ELSE Shown({"fps"}),
                        IF rc_df.isNone THEN Notice("RC CSV not loaded.") ELSE Shown({"rc"}))
       IN IF fps_df.isNone \/ rc_df.isNone
          THEN Render("tab1", Both(head, Notice("Need both FPS and RC datasets loaded to perform join.")))
          ELSE IF pressed # "join" THEN Render("tab1", head)
          ELSE \E fps_join_col \in ColumnsOf(fps_df), rc_join_col \in ColumnsOf(rc_df) :
                 LET j == JoinFpsRc(fps_df, rc_df, fps_join_col, rc_join_col)
                 IN Render("tab1", [Both(j, head) EXCEPT !.dim = fps_join_col, !.val = rc_join_col])
    /\ UNCHANGED <<frames, Rest>>

Tab2NfsaDate ==
    /\ pc = "tab2"
    /\ IF nfsa_date_df.isNone THEN Render("tab2", Notice("NFSA_Date_Abstract.xls not loaded."))
       ELSE IF pressed # "date" THEN Render("tab2", Shown({"raw"}))
       ELSE \E date_col \in ColumnsOf(nfsa_date_df), value_col \in ColumnsOf(nfsa_date_df),
               lenient \in BOOLEAN :
              Render("tab2", [Both(PlotDateTrend(nfsa_date_df, date_col, value_col, lenient),
                                   Shown({"raw"}))
                              EXCEPT !.dim = date_col, !.val = value_col])
    /\ UNCHANGED <<frames, Rest>>

Tab3SaleDistribution ==
    /\ pc = "tab3"
    /\ IF sale_dist_df.isNone THEN Render("tab3", Notice("sale_dist.xls not loaded."))
       ELSE IF pressed # "sale" THEN Render("tab3", Shown({"raw"}))
       ELSE \E group_col \in ColumnsOf(sale_dist_df), value_col \in ColumnsOf(sale_dist_df) :
              Render("tab3", [Both(PlotSaleDistribution(sale_dist_df, group_col, value_col),
                                   Shown({"raw"}))
                              EXCEPT !.dim = group_col, !.val = value_col])
    /\ UNCHANGED <<frames, Rest>>

Tab4Scheme ==
    /\ pc = "tab4"
    /\ IF scheme_sale_df.isNone
       THEN Render("tab4", Notice("Scheme_Wise_Sale_Allotment_11_2025.xls not loaded."))
       ELSE IF pressed # "scheme" THEN Render("tab4", Shown({"raw"}))
       ELSE \E scheme_col \in ColumnsOf(scheme_sale_df), allot_col \in ColumnsOf(scheme_sale_df),
               sale_col \in ColumnsOf(scheme_sale_df) :
              Render("tab4", [Both(PlotScheme(scheme_sale_df, scheme_col, allot_col, sale_col),
                                   Shown({"raw"}))
                              EXCEPT !.dim = scheme_col, !.val = sale_col,
                                     !.allot_col = allot_col])
    /\ UNCHANGED <<frames, Rest>>

\* Heatmaps tab: the table heatmap, then the map view.  The map view runs on
\* every run with a loaded choice and a geo file, pressed button or not.
Tab5Heatmap ==
    /\ pc = "tab5"
    /\ \E source_choice \in HEATMAP_CHOICES :
         LET df_for_heatmap == ChosenFrame(source_choice)
             noGeo == Notice("district_lat_long.csv not found. Add it in the folder if you want geo maps.")
             geoInfo == [Notice("Using district_lat_long.csv to plot map. Expecting columns: district, lat, lon")
                         EXCEPT !.shown = {"geo"}]
         IN IF df_for_heatmap.isNone
            THEN /\ Render("tab5",
                      [Both(IF source_choice # "None"
                            THEN Notice("Selected dataset not loaded or empty.") ELSE Blank,
                            IF district_geo_df.isNone THEN noGeo
                            ELSE Both(geoInfo, Notice("Select a dataset and build a heatmap first to use map.")))
                       EXCEPT !.source = source_choice])
                 /\ frames' = frames
            ELSE \E dim_col \in ColumnsOf(df_for_heatmap), val_col \in ColumnsOf(df_for_heatmap) :
                   LET heat == IF pressed = "heat"
                               THEN [Both(BuildHeatmap(df_for_heatmap, dim_col, val_col), Shown({"raw"}))
                                     EXCEPT !.dim = dim_col, !.val = val_col]
                               ELSE Shown({"raw"})
                       h == [n \in Datasets \cup {"join_df"} |->
                                IF n \in Datasets THEN frames[n] ELSE None_df]
                       map == MapView(h, SourceRef(source_choice), dim_col, val_col)
                   IN IF heat.raised
                      THEN /\ Render("tab5", [heat EXCEPT !.source = source_choice])
                           /\ frames' = frames
                      ELSE IF district_geo_df.isNone
                      THEN /\ Render("tab5", [Both(heat, noGeo) EXCEPT !.source = source_choice])
                           /\ frames' = frames
                      ELSE /\ Render("tab5", [Both(heat, Both(geoInfo, map.out))
                                              EXCEPT !.source = source_choice])
                           /\ frames' = [d \in Datasets |-> map.heap[d]]
    /\ UNCHANGED Rest

Tab6AIInsights ==
    /\ pc = "tab6"
    /\ \E source_choice_ai \in AI_CHOICES :
         LET df_ai == ChosenFrame(source_choice_ai) IN
         IF df_ai.isNone
         THEN Render("tab6", [Notice("Select a dataset above to generate insights.")
                              EXCEPT !.source = source_choice_ai])
         ELSE IF pressed # "ai" THEN Render("tab6", [Blank EXCEPT !.source = source_choice_ai])
         ELSE \E dim_col_ai \in ColumnsOf(df_ai), val_col_ai \in ColumnsOf(df_ai) :
                Render("tab6", [GenerateInsight(df_ai, dim_col_ai, val_col_ai)
                                EXCEPT !.source = source_choice_ai,
                                       !.dim = dim_col_ai, !.val = val_col_ai])
    /\ UNCHANGED <<frames, Rest>>

\* The labels of the loaded data tables, as the explorer offers them.
dataset_options == {c \in AI_CHOICES \ {"None"} : ~frames[SourceRef(c)].isNone}

Tab7RawData ==
    /\ pc = "tab7"
    /\ IF dataset_options = {}
       THEN Render("tab7", Notice("No datasets loaded. Check file names and paths."))
       ELSE \E choice \in dataset_options :
              Render("tab7", [Shown({"raw"}) EXCEPT !.source = choice])
    /\ UNCHANGED <<frames, Rest>>

\* A widget is touched or a button pressed: the script runs again from the top.
Rerun ==
    /\ pc \in {"done", "stopped"}
    /\ \E b \in Buttons : pressed' = b
    /\ pc' = "fps_df"
    /\ frames' = NoFrames
    /\ out' = Blank
    /\ UNCHANGED <<files, record_table, insight, series, coerced>>

Next ==
    \/ LoadDataset
    \/ Tab0Overview
    \/ Tab1Join
    \/ Tab2NfsaDate
    \/ Tab3SaleDistribution
    \/ Tab4Scheme
    \/ Tab5Heatmap
    \/ Tab6AIInsights
    \/ Tab7RawData
    \/ Rerun

Spec == Init /\ [][Next]_vars

-----------------------------------------------------------------------------
(* The aggregating handlers on their own, over a range of tables *)

MaxRows == 3

MaxGroups == 6

KeyCells == {A, B, NaN}

MeasureCells == {Num(2), Str(<<"1", ",", "0">>), Str(<<"x">>), NaN}

SumVals == {1, 10, 100}

Letters == <<"A", "B", "C", "D", "E", "F", "G">>

TABLE_COLS == <<"district", "qty">>

\* Every table of at most MaxRows rows over KeyCells and MeasureCells.
IsSmallTable(df) ==
    \E n \in 0..MaxRows : \E d \in [1..n -> KeyCells \X MeasureCells] :
        df = Frame(TABLE_COLS, [i \in 1..n |-> <<d[i][1], d[i][2]>>])

\* One row per district, for up to MaxGroups districts.
IsGroupTable(df) ==
    \E n \in 1..(IF MaxGroups < Len(Letters) THEN MaxGroups ELSE Len(Letters)) :
        \E v \in [1..n -> SumVals] :
            df = Frame(TABLE_COLS, [i \in 1..n |-> <<Str(<<Letters[i]>>), Num(v[i])>>])

\* Group sums with two high anomalies, with two low anomalies, and with one of
\* each; the larger anomaly is not the first in key order.
AnomalySums ==
    {<<9, 10, 1, 1, 1, 1, 1, 1, 1, 1, 1, 1>>,
     <<2, 1, 10, 10, 10, 10, 10, 10, 10, 10, 10, 10>>,
     <<5, 10, 5, 5, 0, 5, 5, 5, 5>>}

\* One row per district code, with the sums of AnomalySums.
IsAnomalyTable(df) ==
    \E v \in AnomalySums :
        df = Frame(TABLE_COLS, [i \in 1..Len(v) |-> <<Num(i), Num(v[i])>>])

IdleSession ==
    /\ frames = <<>>
    /\ files = <<>>
    /\ pc = "idle"
    /\ pressed = "none"
    /\ out = Blank

InitInsight ==
    /\ IsSmallTable(record_table) \/ IsGroupTable(record_table) \/ IsAnomalyTable(record_table)
    /\ insight = Blank
    /\ series = <<>>
    /\ coerced = <<>>
    /\ IdleSession

Chosen(o, tab, dim, val) == [o EXCEPT !.tab = tab, !.dim = dim, !.val = val]

InsightAI ==
    \E dim \in ColumnsOf(record_table), val \in ColumnsOf(record_table) :
        /\ insight.tab = "none"
        /\ insight' = Chosen(GenerateInsight(record_table, dim, val), "ai", dim, val)
        /\ UNCHANGED <<frames, files, pc, pressed, out, record_table, series, coerced>>

InsightHeatmap ==
    \E dim \in ColumnsOf(record_table), val \in ColumnsOf(record_table) :
        /\ insight.tab = "none"
        /\ insight' = Chosen(BuildHeatmap(record_table, dim, val), "heatmap", dim, val)
        /\ UNCHANGED <<frames, files, pc, pressed, out, record_table, series, coerced>>

InsightSale ==
    \E dim \in ColumnsOf(record_table), val \in ColumnsOf(record_table) :
        /\ insight.tab = "none"
        /\ insight' = Chosen(PlotSaleDistribution(record_table, dim, val), "sale", dim, val)
        /\ UNCHANGED <<frames, files, pc, pressed, out, record_table, series, coerced>>

\* The result is shown and dropped; nothing is kept for the next press.
InsightDiscard ==
    /\ insight.tab # "none"
    /\ insight' = Blank
    /\ UNCHANGED <<frames, files, pc, pressed, out, record_table, series, coerced>>

NextInsight == InsightAI \/ InsightHeatmap \/ InsightSale \/ InsightDiscard

SpecInsight == InitInsight /\ [][NextInsight]_vars

-----------------------------------------------------------------------------
(* The AI Insight in float64, over tables of a few groups *)

MaxFloatGroups == 5

FloatSums == {10, 11}

\* One row per district, for up to MaxFloatGroups districts.
IsFloatTable(df) ==
    \E n \in 1..(IF MaxFloatGroups < Len(Letters) THEN MaxFloatGroups ELSE Len(Letters)) :
        \E v \in [1..n -> FloatSums] :
            df = Frame(TABLE_COLS, [i \in 1..n |-> <<Str(<<Letters[i]>>), Num(v[i])>>])

InitFloat64 ==
    /\ IsFloatTable(record_table)
    /\ insight = Blank
    /\ series = <<>>
    /\ coerced = <<>>
    /\ IdleSession

InsightAI64 ==
    \E dim \in ColumnsOf(record_table), val \in ColumnsOf(record_table) :
        /\ insight.tab = "none"
        /\ insight' = Chosen(GenerateInsight64(record_table, dim, val), "ai", dim, val)
        /\ UNCHANGED <<frames, files, pc, pressed, out, record_table, series, coerced>>

NextFloat64 == InsightAI64 \/ InsightDiscard

SpecFloat64 == InitFloat64 /\ [][NextFloat64]_vars

-----------------------------------------------------------------------------
(* safe_numeric on its own, over a range of Series *)

MaxLen == 3

CellChars == {"1", "2", ",", " ", "-", "x"}

SampleNumbers == {0, 7, 120, 12345, -3}

TEXT_12_345 == <<"1", "2", ",", "3", "4", "5">>

SampleTexts == {TEXT_12_345, <<"n", "a", "n">>, <<"N", "a", "N">>, <<"+", "7">>}

SeriesPrefixes == {<<>>, <<Str(TEXT_12_345), NaN>>}

\* The empty Series, or a prefix followed by one cell: a text of at most MaxLen
\* characters over CellChars, a sample text or number, NaN or None.
IsSeriesInput(s) ==
    \/ s = <<>>
    \/ \E p \in SeriesPrefixes :
         \/ \E k \in 0..MaxLen : \E t \in [1..k -> CellChars] :
                s = p \o <<Str([i \in 1..k |-> t[i]])>>
         \/ \E t \in SampleTexts : s = p \o <<Str(t)>>
         \/ \E n \in SampleNumbers : s = p \o <<Num(n)>>
         \/ \E c \in {NaN, NoneCell} : s = p \o <<c>>

InitCoerce ==
    /\ IsSeriesInput(series)
    /\ coerced = [returned |-> FALSE, value |-> <<>>, given |-> <<>>]
    /\ record_table = None_df
    /\ insight = Blank
    /\ IdleSession

\* One call: astype(str) and str.replace build new Series, the argument is not written.
CallSafeNumeric ==
    /\ ~coerced.returned
    /\ coerced' = [returned |-> TRUE, value |-> safe_numeric(series), given |-> series]
    /\ UNCHANGED <<frames, files, pc, pressed, out, record_table, insight, series>>

NextCoerce == CallSafeNumeric

SpecCoerce == InitCoerce /\ [][NextCoerce]_vars

-----------------------------------------------------------------------------
(* Properties of the aggregation and of the z-score rule (SpecInsight) *)

KeysOf(view) == {view[i].key : i \in 1..Len(view)}

SumsOf(view) == [i \in 1..Len(view) |-> view[i].sum]

Flagged(o) == KeysOf(o.high_anom) \cup KeysOf(o.low_anom)

\* The measure column of the source table as the handlers coerce it.
CoercedMeasure(df, val) == safe_numeric(Column(df, val))

\* The sum of the coercible measures of the rows in S.
RECURSIVE CoercibleSum(_, _, _)
CoercibleSum(df, val, S) ==
    IF S = {} THEN 0
    ELSE LET i == CHOOSE x \in S : TRUE
             c == CoercedMeasure(df, val)[i]
         IN (IF c.t = "num" THEN c.n ELSE 0) + CoercibleSum(df, val, S \ {i})

RowsOf(df) == 1..Len(df.data)

RowsWithKey(df, dim, k) == {i \in RowsOf(df) : Column(df, dim)[i] = k}

\* An aggregation over (district, qty) that ran to its end.
Aggregated(tabs) ==
    /\ insight.tab \in tabs
    /\ ~insight.raised
    /\ insight.dim # insight.val

C1Table ==
    Frame(TABLE_COLS, <<<<Str(<<"A">>), Num(1)>>, <<Str(<<"B">>), Num(1)>>,
                        <<Str(<<"C">>), Num(1)>>, <<Str(<<"D">>), Num(100)>>>>)

C1Case ==
    /\ record_table = C1Table
    /\ insight.tab = "ai"
    /\ insight.dim = "district"
    /\ insight.val = "qty"

\* C1 as the spec states it: with group sums {A: 1, B: 1, C: 1, D: 100} the
\* insight flags D as a high anomaly (z > 2) and flags none of A, B, C.
C1_DFlaggedHigh ==
    C1Case =>
        /\ Str(<<"D">>) \in KeysOf(insight.high_anom)
        /\ Flagged(insight) \cap {Str(<<"A">>), Str(<<"B">>), Str(<<"C">>)} = {}

\* C1, amended: with group sums {A: 1, B: 1, C: 1, D: 100} the z-score of D is
\* positive with z * z = 3 (z = sqrt(3), about 1.73, which is not above 2), the
\* z-scores of A, B and C are negative and not below -2, and no group at all is
\* flagged as a high or a low anomaly.
C1_NoGroupFlagged ==
    C1Case =>
        /\ SumsOf(insight.agg) = <<1, 1, 1, 100>>
        /\ insight.high_anom = <<>>
        /\ insight.low_anom = <<>>
        /\ LET z == insight.z_score[4] IN
             /\ z.by_std /\ z.dev.num > 0
             /\ z.dev.num * z.dev.num * z.var.den = 3 * z.var.num * z.dev.den * z.dev.den
             /\ ~ZGreater(z, Z_THRESHOLD)
        /\ \A i \in 1..3 : insight.z_score[i].dev.num < 0 /\ ~ZLess(insight.z_score[i], Z_THRESHOLD)

C1_Witness == C1Case /\ Len(insight.z_score) = 4 /\ ~insight.raised

\* C2: conservation: the per-group sums of an aggregation add up to the sum of
\* all coercible measure values of the table, rows with a missing dimension
\* value included.
C2_Conservation ==
    Aggregated({"ai", "heatmap"}) =>
        SumOfSums(insight.agg, Len(insight.agg))
            = CoercibleSum(record_table, insight.val, RowsOf(record_table))

C8_OneEntryPerKey ==
    Aggregated({"ai", "heatmap"}) =>
        LET dimcol == Column(record_table, insight.dim) IN
        /\ KeysOf(insight.agg) = {dimcol[i] : i \in {j \in RowsOf(record_table) : ~IsNull(dimcol[j])}}
        /\ Cardinality(KeysOf(insight.agg)) = Len(insight.agg)
        /\ \A e \in 1..Len(insight.agg) :
             insight.agg[e].sum
                = CoercibleSum(record_table, insight.val,
                               RowsWithKey(record_table, insight.dim, insight.agg[e].key))

\* Two districts, one of them with a coercible and an uncoercible measure, and a
\* row with no district.
C8_Witness ==
    /\ Aggregated({"heatmap"})
    /\ insight.dim = "district"
    /\ Len(insight.agg) = 2
    /\ insight.agg[1].sum = 10
    /\ insight.agg[2].sum = 0
    /\ \E i \in RowsOf(record_table) : IsNull(record_table.data[i][1])
    /\ Len(record_table.data) = 3

\* C3: when a non-empty table has no coercible value in the measure column,
\* the aggregation is empty and the action reports the "no numeric data"
\* notice: no group gets a sum and no z-score or anomaly view is computed.
C3_NoCoercibleValueGivesNotice ==
    (/\ Aggregated({"ai", "sale"})
     /\ Len(record_table.data) > 0
     /\ \A i \in RowsOf(record_table) : CoercedMeasure(record_table, insight.val)[i] = NaN)
    => /\ insight.agg = <<>>
       /\ insight.z_score = <<>>
       /\ insight.high_anom = <<>> /\ insight.low_anom = <<>>
       /\ insight.notices \cap {NO_NUMERIC_AI, NO_NUMERIC_PLOT} # {}

\* The entries of the aggregation with their z-scores.
EntriesOf(o) ==
    {[key |-> o.agg[i].key, sum |-> o.agg[i].sum, z_score |-> o.z_score[i]] :
        i \in 1..Len(o.agg)}

\* v lists entries of the aggregation, none of them twice.
IsViewOf(v, o) ==
    /\ \A i \in 1..Len(v) : v[i] \in EntriesOf(o)
    /\ Cardinality(KeysOf(v)) = Len(v)

\* a >= b for two z-scores of one aggregation (they share a positive divisor).
ZNotBelow(a, b) == a.dev.num * b.dev.den >= b.dev.num * a.dev.den

\* C11: the top view is the 5 groups (all of them when there are fewer) with
\* the largest sums, largest first; the bottom view is the 5 groups with the
\* smallest sums, smallest first; the high-anomaly view is exactly the groups
\* with z > 2, largest z first; the low-anomaly view is exactly the groups
\* with z < -2, smallest z first; the two anomaly views share no group.
C11_DerivedViews ==
    (Aggregated({"ai"}) /\ insight.agg # <<>>) =>
        LET n == Len(insight.agg)
            k == IF n < 5 THEN n ELSE 5
            top == insight.top
            bottom == insight.bottom
            high == insight.high_anom
            low == insight.low_anom
        IN /\ Len(insight.z_score) = n
           /\ IsViewOf(top, insight) /\ Len(top) = k
           /\ \A i \in 1..(k - 1) : top[i].sum >= top[i + 1].sum
           /\ \A e \in EntriesOf(insight) : e.key \notin KeysOf(top) => e.sum <= top[k].sum
           /\ IsViewOf(bottom, insight) /\ Len(bottom) = k
           /\ \A i \in 1..(k - 1) : bottom[i].sum <= bottom[i + 1].sum
           /\ \A e \in EntriesOf(insight) : e.key \notin KeysOf(bottom) => e.sum >= bottom[k].sum
           /\ IsViewOf(high, insight)
           /\ KeysOf(high) = {e.key : e \in {x \in EntriesOf(insight) : ZGreater(x.z_score, 2)}}
           /\ \A i \in 1..(Len(high) - 1) : ZNotBelow(high[i].z_score, high[i + 1].z_score)
           /\ IsViewOf(low, insight)
           /\ KeysOf(low) = {e.key : e \in {x \in EntriesOf(insight) : ZLess(x.z_score, 2)}}
           /\ \A i \in 1..(Len(low) - 1) : ZNotBelow(low[i + 1].z_score, low[i].z_score)
           /\ KeysOf(high) \cap KeysOf(low) = {}

\* Twelve groups of which two are high anomalies: the top view is cut to 5 and
\* the anomaly with the larger sum, second in key order, comes first.
C11_Witness ==
    /\ Aggregated({"ai"})
    /\ Len(insight.agg) = 12
    /\ SumsOf(insight.top) = <<10, 9, 1, 1, 1>>
    /\ SumsOf(insight.bottom) = <<1, 1, 1, 1, 1>>
    /\ SumsOf(insight.high_anom) = <<10, 9>>
    /\ insight.high_anom[1].key = Num(2)
    /\ insight.low_anom = <<>>

-----------------------------------------------------------------------------
(* Properties of the z-score rule in float64 (SpecFloat64) *)

\* C12: an aggregation of 5 groups or fewer flags no group as a high or a low
\* anomaly, whatever the group sums are (in exact arithmetic |z| is at most
\* sqrt(n - 1), which is 2 for n = 5, and the thresholds are strict).
C12_FiveGroupsNeverFlag ==
    (Aggregated({"ai"}) /\ Len(insight.agg) <= 5) =>
        /\ insight.high_anom = <<>>
        /\ insight.low_anom = <<>>

-----------------------------------------------------------------------------
(* Properties of the script run (Spec) *)

Position(p) == CHOOSE i \in 1..Len(Script) : Script[i] = p

\* The load of dataset d is behind the run.
LoadDone(d) == pc = "stopped" \/ Position(pc) > Position(d)

Unavailable(d) == files[d].isNone

NOT_AVAILABLE_NOTICES ==
    {"FPS CSV not loaded.", "RC CSV not loaded.", "NFSA_Date_Abstract.xls not loaded.",
     "sale_dist.xls not loaded.", "Scheme_Wise_Sale_Allotment_11_2025.xls not loaded.",
     "Selected dataset not loaded or empty."}

NO_DATA_NOTICES == {NO_NUMERIC_AI, NO_NUMERIC_PLOT, "No valid data to plot after cleaning."}

KpiIsNA(label) == \E i \in 1..Len(out.kpi) : out.kpi[i].label = label /\ out.kpi[i].na

\* C4: view isolation: whatever is loaded, selected and pressed, no error ends
\* the script run; every tab through "Raw Data Explorer" is rendered.
C4_NoErrorEndsTheRun == pc # "stopped" /\ ~out.raised

\* C5: a dataset whose load fails is held as None while the others are loaded,
\* and its own tab, its Overview KPI and its entry in the Heatmap and AI
\* Insights choosers each show a "not loaded / not available" notice.
C5_MissingFileNotice ==
    /\ \A d \in Datasets : LoadDone(d) => frames[d] = files[d]
    /\ out.tab = "tab0" =>
         /\ Unavailable("fps_df") => KpiIsNA("FPS rows (district-wise file)")
         /\ Unavailable("rc_df") => KpiIsNA("RC rows (district-wise file)")
         /\ Unavailable("nfsa_date_df") => KpiIsNA("NFSA Date Abstract rows")
         /\ Unavailable("scheme_sale_df") => KpiIsNA("Scheme-wise Allotment/Sale rows")
    /\ out.tab = "tab1" =>
         /\ Unavailable("fps_df") => "FPS CSV not loaded." \in out.notices
         /\ Unavailable("rc_df") => "RC CSV not loaded." \in out.notices
    /\ (out.tab = "tab2" /\ Unavailable("nfsa_date_df"))
         => "NFSA_Date_Abstract.xls not loaded." \in out.notices
    /\ (out.tab = "tab3" /\ Unavailable("sale_dist_df"))
         => "sale_dist.xls not loaded." \in out.notices
    /\ (out.tab = "tab4" /\ Unavailable("scheme_sale_df"))
         => "Scheme_Wise_Sale_Allotment_11_2025.xls not loaded." \in out.notices
    /\ (out.tab \in {"tab5", "tab6"} /\ out.source # "None" /\ Unavailable(SourceRef(out.source)))
         => out.notices \cap NOT_AVAILABLE_NOTICES # {}

\* The pressed aggregating action ran on a table of zero rows, with two
\* different columns chosen.
OnZeroRows ==
    /\ out.dim # out.val
    /\ \/ out.tab = "tab3" /\ pressed = "sale" /\ sale_dist_df = SaleFileNoRows
       \/ /\ out.tab = "tab4" /\ pressed = "scheme" /\ scheme_sale_df = SchemeFileNoRows
          /\ out.allot_col \notin {out.dim, out.val}
       \/ /\ out.tab = "tab5" /\ pressed = "heat"
          /\ ChosenFrame(out.source) \in {SaleFileNoRows, SchemeFileNoRows}
       \/ /\ out.tab = "tab6" /\ pressed = "ai"
          /\ ChosenFrame(out.source) \in {SaleFileNoRows, SchemeFileNoRows}

\* C9: on a table of zero rows every aggregating action (Sale Distribution,
\* Scheme-wise, Heatmap, AI Insight) ends without raising, with an empty group
\* sequence, and shows a "no data" notice in place of an empty chart or table.
C9_ZeroRowsGiveNotice ==
    OnZeroRows =>
        /\ ~out.raised
        /\ out.agg = <<>>
        /\ out.notices \cap NO_DATA_NOTICES # {}
        /\ out.shown \cap {"dataframe", "bar_chart", "line_chart"} = {}

\* C10: the loaded tables are read-only: at every point of every run each of
\* fps_df, rc_df, sale_dist_df, nfsa_date_df, scheme_sale_df and
\* district_geo_df is None (not loaded yet, or unavailable) or exactly what
\* its file held, and it is exactly that once its load is behind, whatever
\* was selected and pressed.
C10_LoadedTablesReadOnly ==
    \A d \in Datasets :
        /\ frames[d] \in {None_df, files[d]}
        /\ LoadDone(d) => frames[d] = files[d]

\* The map view coerced the Cards column of its copy of rc_df ("1,0" became 10
\* in the aggregation) and rc_df still holds the text.
C10_Witness ==
    /\ out.tab = "tab5"
    /\ pressed = "heat"
    /\ out.source = "RC CSV"
    /\ out.val = "Cards"
    /\ "map" \in out.shown
    /\ SumsOf(out.agg) = <<10, 20>>
    /\ rc_df = RcFile

-----------------------------------------------------------------------------
(* Properties of safe_numeric (SpecCoerce) *)

RECURSIVE Pow10(_)
Pow10(k) == IF k = 0 THEN 1 ELSE 10 * Pow10(k - 1)

WithoutCommas(t) == SelectSeq(t, LAMBDA ch : ch # ",")

\* Positional value of a string of digits.
RECURSIVE PositionalValue(_, _)
PositionalValue(d, i) ==
    IF i > Len(d) THEN 0
    ELSE DigitVal(d[i]) * Pow10(Len(d) - i) + PositionalValue(d, i + 1)

\* t is blanks, an optional sign, one or more digits, blanks; a and b are the
\* numbers of leading and trailing blanks, g is 1 when a sign is there.
NumeralShape(t, a, b, g) ==
    /\ a + g + b < Len(t)
    /\ \A i \in 1..a : t[i] = " "
    /\ \A i \in (Len(t) - b + 1)..Len(t) : t[i] = " "
    /\ g = 1 => t[a + 1] \in {"-", "+"}
    /\ \A i \in (a + g + 1)..(Len(t) - b) : t[i] \in DigitSet

IsNumeral(t) == \E a, b \in 0..Len(t), g \in 0..1 : NumeralShape(t, a, b, g)

NumeralValue(t) ==
    LET w == CHOOSE w \in (0..Len(t)) \X (0..Len(t)) \X (0..1) : NumeralShape(t, w[1], w[2], w[3])
        d == SubSeq(t, w[1] + w[3] + 1, Len(t) - w[2])
        v == PositionalValue(d, 1)
    IN IF w[3] = 1 /\ t[w[1] + 1] = "-" THEN -v ELSE v

\* What the spec asks of one cell.
ReferenceCoercion(c) ==
    CASE c.t = "num" -> Num(c.n)
      [] c.t = "str" -> IF IsNumeral(WithoutCommas(c.s)) THEN Num(NumeralValue(WithoutCommas(c.s)))
                        ELSE NaN
      [] OTHER -> NaN

\* C6: safe_numeric returns a sequence of the length of its input whose element
\* i is the number the text of input i denotes once every comma is removed
\* ("12,345" gives 12345), and is "no value" for a blank, whitespace-only,
\* textual-NaN, missing or otherwise unparseable input; the input is unchanged.
C6_SafeNumericMatchesReference ==
    coerced.returned =>
        /\ series = coerced.given
        /\ Len(coerced.value) = Len(series)
        /\ \A i \in 1..Len(series) :
             /\ coerced.value[i] = ReferenceCoercion(series[i])
             /\ coerced.value[i].t \in {"num", "nan"}
             /\ (series[i].t = "str" /\ \A j \in 1..Len(series[i].s) : series[i].s[j] = " ")
                    => coerced.value[i] = NaN
             /\ series[i] \in {NaN, NoneCell, Str(<<"n", "a", "n">>), Str(<<"N", "a", "N">>)}
                    => coerced.value[i] = NaN
             /\ series[i] = Str(TEXT_12_345) => coerced.value[i] = Num(12345)

\* "12,345", a missing value, and a string with two commas.
C6_Witness ==
    /\ coerced.returned
    /\ series = <<Str(TEXT_12_345), NaN, Str(<<"1", ",", ",">>)>>
    /\ coerced.value = <<Num(12345), NaN, Num(1)>>

====
